---------------------------- MODULE Spec2Model ----------------------------
(***************************************************************************)
(* A model of float_shredder.h: the reinterpretation of a 32-bit IEEE 754  *)
(* float as a uint32_t and back, the extraction of its sign, exponent and  *)
(* mantissa fields, and the four field-local shifts.                       *)
(*                                                                         *)
(* A uint32_t is a function from the bit positions 0..31 to {0, 1}, so     *)
(* that every C operator on the word (&, |, ~, <<, >>) is modelled on all  *)
(* 32 bits.  A float is the record of the three fields the header's        *)
(* layout comment names; the two pointer casts encode and decode it.       *)
(***************************************************************************)
EXTENDS Integers, FiniteSets

VARIABLES
    op,           \* the function called last ("none" before the first call)
    in_float,     \* its float argument
    in_int,       \* its uint32_t argument (ShredDataToFloat)
    in_shift,     \* the shift count the caller passed
    shift_used,   \* the parameter `shift` when the << or >> executes
    ret_u32,      \* the value returned, by return type
    ret_i32,
    ret_float,
    ret_bool

vars == <<op, in_float, in_int, in_shift, shift_used,
          ret_u32, ret_i32, ret_float, ret_bool>>

---------------------------------------------------------------------------
(* Bounds of the model *)

\* shift counts are drawn from -NegShifts..MaxShift and from BigShifts
MaxShift == 25
NegShifts == 2
INT_MAX == 2147483647
BigShifts == {100, 1000, INT_MAX}
ShiftCounts == ((0 - NegShifts)..MaxShift) \cup BigShifts

---------------------------------------------------------------------------
(* uint32_t and its operators *)

BitIdx == 0..31

Pow2(n) == 2 ^ n

\* bit i of the natural number n
Bit(n, i) == (n \div Pow2(i)) % 2

\* the word whose upper half is hi and whose lower half is lo (both 16-bit)
U32(hi, lo) == [i \in BitIdx |-> IF i < 16 THEN Bit(lo, i) ELSE Bit(hi, i - 16)]

Zero32 == [i \in BitIdx |-> 0]

BitAnd(a, b) == [i \in BitIdx |-> IF a[i] = 1 /\ b[i] = 1 THEN 1 ELSE 0]
BitOr(a, b) == [i \in BitIdx |-> IF a[i] = 1 \/ b[i] = 1 THEN 1 ELSE 0]
BitNot(a) == [i \in BitIdx |-> 1 - a[i]]

\* a << n and a >> n on a 32-bit unsigned word, for 0 <= n < 32
Shl(a, n) == [i \in BitIdx |-> IF (i - n) \in BitIdx THEN a[i - n] ELSE 0]
Shr(a, n) == [i \in BitIdx |-> IF (i + n) \in BitIdx THEN a[i + n] ELSE 0]

\* C leaves a shift by a negative count, or by the width or more, undefined
ShiftDefined(n) == n >= 0 /\ n < 32

RECURSIVE FieldValue(_, _, _)
\* the number held in the w bits of d that start at bit lo (w <= 31)
FieldValue(d, lo, w) ==
    IF w = 0 THEN 0
    ELSE d[lo + w - 1] * Pow2(w - 1) + FieldValue(d, lo, w - 1)

\* (int32_t)d
ToInt32(d) ==
    IF d[31] = 1 THEN (FieldValue(d, 0, 31) - INT_MAX) - 1
    ELSE FieldValue(d, 0, 31)

---------------------------------------------------------------------------
(* The constants of the header *)

float_exp_mask == U32(32640, 0)          \* 0x7F800000
float_sign_mask == U32(32768, 0)         \* 0x80000000
float_mantissa_mask == U32(127, 65535)   \* 0x007FFFFF
float_exp_offset == 23
float_sign_offset == 31
float_exp_bias == 127
double_exp_bias == 1023

---------------------------------------------------------------------------
(* The float in memory: sign (1 bit), exponent (8 bits), mantissa (23) *)

IsFloat(f) ==
    /\ f.sign \in 0..1
    /\ f.exp \in 0..255
    /\ f.mant \in 0..(Pow2(23) - 1)

MkFloat(s, e, m) == [sign |-> s, exp |-> e, mant |-> m]

\* A faulty variant: the float passes through a register that quiets a
\* signalling NaN, so the payload's top bit is set on the way.
ShredDataToFloat_Quieting(input_int) ==
    LET e == FieldValue(input_int, 23, 8)
        m == FieldValue(input_int, 0, 23)
    IN MkFloat(input_int[31], e, IF e = 255 /\ m # 0 /\ m < Pow2(22)
                                  THEN m + Pow2(22) ELSE m)

ShredFloatToData(input_float) ==
    [i \in BitIdx |->
        IF i = float_sign_offset THEN input_float.sign
        ELSE IF i >= float_exp_offset THEN Bit(input_float.exp, i - float_exp_offset)
        ELSE Bit(input_float.mant, i)]

ShredDataToFloat(input_int) ==
    MkFloat(input_int[float_sign_offset],
            FieldValue(input_int, float_exp_offset, 8),
            FieldValue(input_int, 0, float_exp_offset))

---------------------------------------------------------------------------
(* Field extraction *)

\* A faulty variant: the field is masked but left in place (ExpUnbiasedRaw).
ShredFloatExpUnbiased_NoShift(input_float) ==
    BitAnd(ShredFloatToData(input_float), float_exp_mask)

ShredFloatExpUnbiased(input_float) ==
    Shr(BitAnd(ShredFloatToData(input_float), float_exp_mask), float_exp_offset)

ShredFloatExpUnbiasedRaw(input_float) ==
    BitAnd(ShredFloatToData(input_float), float_exp_mask)

\* A faulty variant: the bias of a double is subtracted.
ShredFloatExp_DoubleBias(input_float) ==
    ToInt32(ShredFloatExpUnbiased(input_float)) - double_exp_bias

ShredFloatExp(input_float) ==
    ToInt32(ShredFloatExpUnbiased(input_float)) - 127

ShredFloatMantissaRaw(input_float) ==
    BitAnd(ShredFloatToData(input_float), float_mantissa_mask)

ShredFloatIsNegative(input_float) ==
    Shr(BitAnd(ShredFloatToData(input_float), float_sign_mask), 31) # Zero32

\* x + 1 in binary32, rounded to nearest (ties to even), for 0 <= x < 1.
\* x is sig * 2^(e - 150) and 1 is 2^23 * 2^(127 - 150): sig is shifted right
\* by d = 127 - e places and the bits shifted out decide the rounding.
FloatAddOne(x) ==
    LET e == IF x.exp = 0 THEN 1 ELSE x.exp
        sig == IF x.exp = 0 THEN x.mant ELSE x.mant + Pow2(23)
        d == 127 - e
        q == IF d > 24 THEN 0 ELSE sig \div Pow2(d)
        rem == IF d > 24 THEN 0 ELSE sig % Pow2(d)
        up == /\ d <= 24
              /\ \/ 2 * rem > Pow2(d)
                 \/ 2 * rem = Pow2(d) /\ q % 2 = 1
        sum == Pow2(23) + q + (IF up THEN 1 ELSE 0)
    IN IF sum >= Pow2(24) THEN MkFloat(0, 128, 0)
       ELSE MkFloat(0, 127, sum - Pow2(23))

\* A faulty variant: the implicit 1 is added only above a true exponent of 0.
ShredFloatMantissa_TrueExp(input_float) ==
    IF ShredFloatExp(input_float) > 0
    THEN FloatAddOne(ShredDataToFloat(ShredFloatMantissaRaw(input_float)))
    ELSE ShredDataToFloat(ShredFloatMantissaRaw(input_float))

ShredFloatMantissa(input_float) ==
    \* an unsigned value is > 0 exactly when some bit of it is set
    IF ShredFloatExpUnbiased(input_float) # Zero32
    THEN FloatAddOne(ShredDataToFloat(ShredFloatMantissaRaw(input_float)))
    ELSE ShredDataToFloat(ShredFloatMantissaRaw(input_float))

---------------------------------------------------------------------------
(* Field-local shifts *)

\* A faulty variant: the cap is left out.
ClampExp_None(shift) == shift

\* if(shift > 8) shift -= (shift-8);
ClampExp(shift) == IF shift > 8 THEN shift - (shift - 8) ELSE shift

\* A faulty variant: the cap is one too low.
ClampMant_Low(shift) == IF shift > 23 THEN shift - (shift - 22) ELSE shift

\* if(shift > 23) shift -= (shift-23);
ClampMant(shift) == IF shift > 23 THEN shift - (shift - 23) ELSE shift

\* The value each function returns once `shift` holds the count to apply.

\* A faulty variant: the shifted field is not masked again.
ExpUp_NoMask(input_float, shift) ==
    LET float_exp == BitAnd(ShredFloatToData(input_float), float_exp_mask)
        float_no_exp == BitAnd(ShredFloatToData(input_float), BitNot(float_exp_mask))
    IN ShredDataToFloat(BitOr(Shl(float_exp, shift), float_no_exp))

ExpUp(input_float, shift) ==
    LET float_exp == BitAnd(ShredFloatToData(input_float), float_exp_mask)
        float_no_exp == BitAnd(ShredFloatToData(input_float), BitNot(float_exp_mask))
    IN ShredDataToFloat(BitOr(BitAnd(Shl(float_exp, shift), float_exp_mask),
                              float_no_exp))

\* A faulty variant: the directions are swapped ("down" shifts left).
ExpDown_Left(input_float, shift) == ExpUp(input_float, shift)

ExpDown(input_float, shift) ==
    LET float_exp == BitAnd(ShredFloatToData(input_float), float_exp_mask)
        float_no_exp == BitAnd(ShredFloatToData(input_float), BitNot(float_exp_mask))
    IN ShredDataToFloat(BitOr(BitAnd(Shr(float_exp, shift), float_exp_mask),
                              float_no_exp))

MantUp(input_float, shift) ==
    LET float_mant == BitAnd(ShredFloatToData(input_float), float_mantissa_mask)
        float_no_mant == BitAnd(ShredFloatToData(input_float),
                                BitNot(float_mantissa_mask))
    IN ShredDataToFloat(BitOr(BitAnd(Shl(float_mant, shift), float_mantissa_mask),
                              float_no_mant))

\* A faulty variant: a shift of n moves the field by n + 1 places.
MantDown_OffByOne(input_float, shift) ==
    LET float_mant == BitAnd(ShredFloatToData(input_float), float_mantissa_mask)
        float_no_mant == BitAnd(ShredFloatToData(input_float),
                                BitNot(float_mantissa_mask))
    IN ShredDataToFloat(BitOr(BitAnd(Shr(float_mant, shift + 1),
                                     float_mantissa_mask),
                              float_no_mant))

MantDown(input_float, shift) ==
    LET float_mant == BitAnd(ShredFloatToData(input_float), float_mantissa_mask)
        float_no_mant == BitAnd(ShredFloatToData(input_float),
                                BitNot(float_mantissa_mask))
    IN ShredDataToFloat(BitOr(BitAnd(Shr(float_mant, shift), float_mantissa_mask),
                              float_no_mant))

ShredFloatShiftExpUp(input_float, shift) == ExpUp(input_float, ClampExp(shift))
ShredFloatShiftExpDown(input_float, shift) == ExpDown(input_float, ClampExp(shift))
ShredFloatShiftMantUp(input_float, shift) == MantUp(input_float, ClampMant(shift))
ShredFloatShiftMantDown(input_float, shift) == MantDown(input_float, ClampMant(shift))

---------------------------------------------------------------------------
(* The arguments the calls are made with *)

\* zero and denormal, the smallest normal, 1.0, 2.0, mixed bits, the largest
\* normal, infinity and NaN
ExpSamples == {0, 1, 127, 128, 129, 170, 254, 255}
\* 0x000000, 0x000001, 0x2AAAAA, 0x400000, 0x7FFFFF
MantSamples == {0, 1, 2796202, 4194304, 8388607}
Floats == {MkFloat(s, e, m) : s \in 0..1, e \in ExpSamples, m \in MantSamples}

\* upper halves 0x0000 0x0040 0x3F80 0x7F00 0x7F80 0x7FC0 0x8000 0xBFC0 0xFF80
\* 0xFFFF and lower halves 0x0000 0x0001 0xAAAA 0xFFFF
HiSamples == {0, 64, 16256, 32512, 32640, 32704, 32768, 49088, 65408, 65535}
LoSamples == {0, 1, 43690, 65535}
Patterns == {U32(hi, lo) : hi \in HiSamples, lo \in LoSamples}

\* what a call leaves in the variables it does not use
NoFloat == MkFloat(0, 0, 0)

ShiftOps == {"ShredFloatShiftExpUp", "ShredFloatShiftExpDown",
             "ShredFloatShiftMantUp", "ShredFloatShiftMantDown"}
ExpShiftOps == {"ShredFloatShiftExpUp", "ShredFloatShiftExpDown"}
MantShiftOps == {"ShredFloatShiftMantUp", "ShredFloatShiftMantDown"}

TypeOK ==
    /\ op \in ShiftOps \cup {"none", "ShredFloatToData", "ShredDataToFloat",
                             "ShredFloatExpUnbiased", "ShredFloatExpUnbiasedRaw",
                             "ShredFloatExp", "ShredFloatMantissaRaw",
                             "ShredFloatMantissa", "ShredFloatIsNegative"}
    /\ IsFloat(in_float) /\ IsFloat(ret_float)
    /\ in_int \in [BitIdx -> 0..1] /\ ret_u32 \in [BitIdx -> 0..1]
    /\ in_shift \in Int /\ shift_used \in Int /\ ret_i32 \in Int
    /\ ret_bool \in BOOLEAN

---------------------------------------------------------------------------
(* The state machine: the caller holds the arguments of one call (Init) *)
(* and makes it; one action per function of the header                   *)

Init ==
    /\ op = "none"
    /\ \/ in_float \in Floats /\ in_int = Zero32 /\ in_shift \in ShiftCounts
       \/ in_float = NoFloat /\ in_int \in Patterns /\ in_shift = 0
    /\ shift_used = 0
    /\ ret_u32 = Zero32 /\ ret_i32 = 0 /\ ret_float = NoFloat /\ ret_bool = FALSE

\* a call f(in_float) that returns one value and shifts nothing
FloatCall(name, u, n, r, b) ==
    /\ op = "none" /\ in_float \in Floats /\ in_shift = 0
    /\ op' = name
    /\ ret_u32' = u /\ ret_i32' = n /\ ret_float' = r /\ ret_bool' = b
    /\ UNCHANGED <<in_float, in_int, in_shift, shift_used>>

CallToData ==
    FloatCall("ShredFloatToData", ShredFloatToData(in_float), 0, NoFloat, FALSE)

CallDataToFloat ==
    /\ op = "none" /\ in_int \in Patterns
    /\ op' = "ShredDataToFloat"
    /\ ret_float' = ShredDataToFloat(in_int)
    /\ UNCHANGED <<in_float, in_int, in_shift, shift_used,
                   ret_u32, ret_i32, ret_bool>>

CallExpUnbiased ==
    FloatCall("ShredFloatExpUnbiased", ShredFloatExpUnbiased(in_float), 0,
              NoFloat, FALSE)

CallExpUnbiasedRaw ==
    FloatCall("ShredFloatExpUnbiasedRaw", ShredFloatExpUnbiasedRaw(in_float), 0,
              NoFloat, FALSE)

CallExp ==
    FloatCall("ShredFloatExp", Zero32, ShredFloatExp(in_float), NoFloat, FALSE)

CallMantissaRaw ==
    FloatCall("ShredFloatMantissaRaw", ShredFloatMantissaRaw(in_float), 0,
              NoFloat, FALSE)

CallMantissa ==
    FloatCall("ShredFloatMantissa", Zero32, 0, ShredFloatMantissa(in_float), FALSE)

CallIsNegative ==
    FloatCall("ShredFloatIsNegative", Zero32, 0, NoFloat,
              ShredFloatIsNegative(in_float))

\* a call f(in_float, in_shift): n is `shift` after the cap, r the value
\* returned when the shift by n is defined; when it is not, the call may
\* return any float
ShiftCall(name, n, r) ==
    /\ op = "none" /\ in_float \in Floats
    /\ op' = name
    /\ shift_used' = n
    /\ IF ShiftDefined(n) THEN ret_float' = r ELSE ret_float' \in Floats
    /\ UNCHANGED <<in_float, in_int, in_shift, ret_u32, ret_i32, ret_bool>>

CallShiftExpUp ==
    ShiftCall("ShredFloatShiftExpUp", ClampExp(in_shift),
              ShredFloatShiftExpUp(in_float, in_shift))

CallShiftExpDown ==
    ShiftCall("ShredFloatShiftExpDown", ClampExp(in_shift),
              ShredFloatShiftExpDown(in_float, in_shift))

CallShiftMantUp ==
    ShiftCall("ShredFloatShiftMantUp", ClampMant(in_shift),
              ShredFloatShiftMantUp(in_float, in_shift))

CallShiftMantDown ==
    ShiftCall("ShredFloatShiftMantDown", ClampMant(in_shift),
              ShredFloatShiftMantDown(in_float, in_shift))

Next ==
    \/ CallToData
    \/ CallDataToFloat
    \/ CallExpUnbiased
    \/ CallExpUnbiasedRaw
    \/ CallExp
    \/ CallMantissaRaw
    \/ CallMantissa
    \/ CallIsNegative
    \/ CallShiftExpUp
    \/ CallShiftExpDown
    \/ CallShiftMantUp
    \/ CallShiftMantDown

Spec == Init /\ [][Next]_vars

---------------------------------------------------------------------------
(* Properties *)

\* the bit patterns of the argument and of the float returned
InBits == ShredFloatToData(in_float)
RetBits == ShredFloatToData(ret_float)

SignBit == {31}
ExpBits == 23..30
MantBits == 0..22

SameBits(a, b, S) == \A i \in S : a[i] = b[i]

\* C1: for every shift count >= 0, an exponent shift returns a pattern whose
\* sign bit and mantissa bits are those of the argument, and a mantissa shift
\* one whose sign bit and exponent bits are those of the argument.
C1_ShiftLeavesOtherFields ==
    /\ (op \in ExpShiftOps /\ in_shift >= 0)
          => SameBits(RetBits, InBits, SignBit \cup MantBits)
    /\ (op \in MantShiftOps /\ in_shift >= 0)
          => SameBits(RetBits, InBits, SignBit \cup ExpBits)

\* an exponent of all ones shifted up by 7: its lowest bit moves to the top
\* of the field, and the bits above it fall off instead of reaching bit 31
C1_Witness ==
    /\ op = "ShredFloatShiftExpUp" /\ in_shift = 7
    /\ in_float = MkFloat(0, 255, 2796202)
    /\ ret_float = MkFloat(0, 128, 2796202)

\* the fields of in_float as the three extractors return them: the value the
\* call made returned, and the other two computed on the same argument
SignField == IF op = "ShredFloatIsNegative" THEN ret_bool
             ELSE ShredFloatIsNegative(in_float)
ExpField == IF op = "ShredFloatExpUnbiased" THEN ret_u32
            ELSE ShredFloatExpUnbiased(in_float)
MantField == IF op = "ShredFloatMantissaRaw" THEN ret_u32
             ELSE ShredFloatMantissaRaw(in_float)
BoolToU32(b) == [i \in BitIdx |-> IF i = 0 /\ b THEN 1 ELSE 0]
Extractors == {"ShredFloatIsNegative", "ShredFloatExpUnbiased",
               "ShredFloatMantissaRaw"}

\* C2: the sign (0 or 1) shifted to bit 31, the raw exponent (0..255) shifted
\* to bit 23 and the raw mantissa (0..0x7FFFFF), ORed together, are the bit
\* pattern of the float.
C2_FieldsRecompose ==
    op \in Extractors =>
        /\ BitOr(BitOr(Shl(BoolToU32(SignField), 31), Shl(ExpField, 23)),
                 MantField) = InBits
        /\ ExpField[31] = 0 /\ FieldValue(ExpField, 0, 31) \in 0..255
        /\ MantField[31] = 0 /\ FieldValue(MantField, 0, 31) \in 0..8388607

C2_Witness ==
    /\ op = "ShredFloatExpUnbiased"
    /\ in_float = MkFloat(1, 170, 2796202)
    /\ FieldValue(ret_u32, 0, 31) = 170

\* C3: whatever the shift count, negative counts included, the count applied
\* to the word is within 0..8 for the exponent shifts and within 0..23 for the
\* mantissa shifts.
C3_AppliedShiftInRange ==
    /\ op \in ExpShiftOps => shift_used \in 0..8
    /\ op \in MantShiftOps => shift_used \in 0..23

\* C4: a shift count above the cap gives what the cap itself gives: above 8
\* the exponent shifts return what a shift by 8 returns, above 23 the mantissa
\* shifts return what a shift by 23 returns.
C4_ClampSaturates ==
    /\ (op = "ShredFloatShiftExpUp" /\ in_shift > 8)
          => ret_float = ShredFloatShiftExpUp(in_float, 8)
    /\ (op = "ShredFloatShiftExpDown" /\ in_shift > 8)
          => ret_float = ShredFloatShiftExpDown(in_float, 8)
    /\ (op = "ShredFloatShiftMantUp" /\ in_shift > 23)
          => ret_float = ShredFloatShiftMantUp(in_float, 23)
    /\ (op = "ShredFloatShiftMantDown" /\ in_shift > 23)
          => ret_float = ShredFloatShiftMantDown(in_float, 23)

C4_Witness ==
    /\ op = "ShredFloatShiftExpUp" /\ in_shift = 100 /\ shift_used = 8
    /\ in_float = MkFloat(1, 127, 1)

\* what ShredFloatMantissa starts from, and whether it returned that value
\* plus one or that value itself (the two differ for every float)
MantissaAsFloat == ShredDataToFloat(ShredFloatMantissaRaw(in_float))
Incremented == ret_float = FloatAddOne(MantissaAsFloat)
Unincremented == ret_float = MantissaAsFloat

\* C5 as stated: ShredFloatMantissa adds 1 exactly when the raw exponent
\* field is above 127 (the true exponent is positive), and returns the value
\* unincremented for every other float.
C5_IncrementsAboveBias ==
    op = "ShredFloatMantissa" =>
        /\ Incremented <=> in_float.exp > 127
        /\ Unincremented <=> in_float.exp <= 127

\* C5 as amended: ShredFloatMantissa adds 1 exactly when the raw exponent
\* field is not zero (1..255), and returns the value unincremented exactly
\* when the field is zero.
C5_IncrementsWhenNormal ==
    op = "ShredFloatMantissa" =>
        /\ Incremented <=> in_float.exp > 0
        /\ Unincremented <=> in_float.exp = 0

\* a float below 1.0 (raw exponent 1, true exponent -126) is incremented
C5_Witness ==
    /\ op = "ShredFloatMantissa"
    /\ in_float = MkFloat(0, 1, 4194304)
    /\ ret_float = MkFloat(0, 127, 0)

C7_BiasArithmetic ==
    op = "ShredFloatExp" =>
        /\ ret_i32 = FieldValue(ShredFloatExpUnbiased(in_float), 0, 31) - 127
        /\ ret_i32 = in_float.exp - 127
        /\ ret_i32 \in -127..128

C7_Witness ==
    op = "ShredFloatExp" /\ in_float.exp = 0 /\ ret_i32 = -127

\* C8: each of the four shifts, called with a count of 0, returns its
\* argument.
C8_ShiftByZero ==
    (op \in ShiftOps /\ in_shift = 0) =>
        ret_float = in_float /\ RetBits = InBits

C8_Witness ==
    /\ op = "ShredFloatShiftMantDown" /\ in_shift = 0
    /\ in_float = MkFloat(1, 254, 8388607)
    /\ ret_float = in_float

\* (m * 2^s) mod 2^w for m < 2^w and s <= w, without leaving 32 bits
MulPow2Mod(m, s, w) == (m % Pow2(w - s)) * Pow2(s)

\* C9: for s in 0..8 the exponent shifts return raw exponent (e * 2^s) mod 256
\* (up) and e div 2^s (down); for s in 0..23 the mantissa shifts return raw
\* mantissa (m * 2^s) mod 2^23 (up) and m div 2^s (down); and shifting the
\* exponent of 0x3F800000 up by 1 gives 0x7F000000.
C9_UpIsLeftDownIsRight ==
    /\ (op = "ShredFloatShiftExpUp" /\ in_shift \in 0..8)
          => ret_float.exp = (in_float.exp * Pow2(in_shift)) % 256
    /\ (op = "ShredFloatShiftExpDown" /\ in_shift \in 0..8)
          => ret_float.exp = in_float.exp \div Pow2(in_shift)
    /\ (op = "ShredFloatShiftMantUp" /\ in_shift \in 0..23)
          => ret_float.mant = MulPow2Mod(in_float.mant, in_shift, 23)
    /\ (op = "ShredFloatShiftMantDown" /\ in_shift \in 0..23)
          => ret_float.mant = in_float.mant \div Pow2(in_shift)
    /\ (op = "ShredFloatShiftExpUp" /\ in_shift = 1 /\ InBits = U32(16256, 0))
          => RetBits = U32(32512, 0)

C9_Witness ==
    /\ op = "ShredFloatShiftExpUp" /\ in_shift = 1
    /\ InBits = U32(16256, 0)
    /\ RetBits = U32(32512, 0)

\* C10: an exponent shift by 8 or more, up or down, returns the argument with
\* its exponent field zero; a mantissa shift by 23 or more, up or down,
\* returns the argument with its mantissa field zero.
C10_SaturatedShiftErases ==
    /\ (op \in ExpShiftOps /\ in_shift >= 8)
          => ret_float = MkFloat(in_float.sign, 0, in_float.mant)
    /\ (op \in MantShiftOps /\ in_shift >= 23)
          => ret_float = MkFloat(in_float.sign, in_float.exp, 0)

C10_Witness ==
    /\ op = "ShredFloatShiftMantUp" /\ in_shift = 24
    /\ in_float = MkFloat(1, 129, 8388607)
    /\ ret_float = MkFloat(1, 129, 0)

===========================================================================
